---- MODULE Spec2Model ----
(***************************************************************************)
(* A model of tools/witx/src/parser.rs: the recursive-descent parser that  *)
(* turns a wast token stream into the unvalidated witx syntax tree.        *)
(*                                                                         *)
(* The token stream is the output of the wast lexer with whitespace        *)
(* tokens dropped (no cursor operation ever looks at them).  The cursor    *)
(* cur is the index of the next token of toks.  Every parse rule is    *)
(* an operator from a cursor position to a ParseResult; the loops of the   *)
(* parser (while !parser.is_empty()) are the actions of the state        *)
(* machine, one action per loop iteration and one per loop exit.           *)
(***************************************************************************)
EXTENDS Integers, Sequences, FiniteSets, TLC

VARIABLES
    toks,    \* the token stream (ParseBuffer), fixed after construction
    cur,     \* ParseBuffer.cur: index of the next token
    pc,      \* the loop the parser is in, or "ok" / "err" once it returned
    items,   \* TopLevelDocument::parse: items
    outer,   \* the open top-level form: its comments, its ( and its list
    inner,   \* the open interface function inside a module
    tree,    \* what TopLevelDocument::parse returned on success
    error,   \* what it returned on failure
    parsed,  \* the value returned by a rule applied on its own
    docs     \* the value returned by CommentSyntax::docs

vars == <<toks, cur, pc, items, outer, inner, tree, error, parsed, docs>>

None == [none |-> TRUE]

(***************************************************************************)
(* Text.  A &str is a sequence of characters; a character is a one-element *)
(* string, and U+00A0 (a White_Space character that takes two bytes in     *)
(* UTF-8) is written NBSP.  str::len and str slicing count bytes.          *)
(***************************************************************************)
NBSP == "U+00A0"

IsWhitespace(c) == c \in {" ", NBSP}

Utf8Len(c) == IF c = NBSP THEN 2 ELSE 1

RECURSIVE ByteLen(_)
ByteLen(s) == IF s = <<>> THEN 0 ELSE Utf8Len(Head(s)) + ByteLen(Tail(s))

RECURSIVE TrimEnd(_)
TrimEnd(s) ==
    IF s = <<>> THEN <<>>
    ELSE IF IsWhitespace(s[Len(s)]) THEN TrimEnd(SubSeq(s, 1, Len(s) - 1))
    ELSE s

RECURSIVE TrimStart(_)
TrimStart(s) ==
    IF s = <<>> THEN <<>>
    ELSE IF IsWhitespace(Head(s)) THEN TrimStart(Tail(s))
    ELSE s

Trim(s) == TrimStart(TrimEnd(s))

StartsWith(s, c) == s # <<>> /\ Head(s) = c

\* Whether byte offset n falls between two characters of s.
IsCharBoundary(s, n) == \E k \in 0..Len(s) : ByteLen(SubSeq(s, 1, k)) = n

\* &s[n..] for a byte offset n that is a character boundary.
ByteSliceFrom(s, n) ==
    LET k == CHOOSE k \in 0..Len(s) : ByteLen(SubSeq(s, 1, k)) = n
    IN  SubSeq(s, k + 1, Len(s))

Min(S) == CHOOSE m \in S : \A x \in S : m <= x

RECURSIVE Flatten(_)
Flatten(ss) == IF ss = <<>> THEN <<>> ELSE Head(ss) \o Flatten(Tail(ss))

(***************************************************************************)
(* Tokens.  k is the lexer's token kind, s the text of a non-comment token *)
(* (an Id's name without its $, a String's contents without its quotes), *)
(* c the raw text of a comment, delimiters included.                       *)
(***************************************************************************)
Tok(k, s) == [k |-> k, s |-> s, c |-> <<>>]
LP == Tok("LParen", "(")
RP == Tok("RParen", ")")
Id(name) == Tok("Id", name)
Str(s) == Tok("String", s)
Kw(s) == Tok("Keyword", s)
Res(s) == Tok("Reserved", s)
LineComment(text) == [k |-> "LineComment", s |-> "", c |-> <<";", ";">> \o text]
BlockComment(text) ==
    [k |-> "BlockComment", s |-> "", c |-> <<"(", ";">> \o text \o <<";", ")">>]

IsComment(t) == t.k \in {"LineComment", "BlockComment"}

(***************************************************************************)
(* The cursor operations of wast::parser that the parser uses.             *)
(***************************************************************************)
Ok(val, pos) == [ok |-> TRUE, val |-> val, pos |-> pos, err |-> <<>>]
\* A failure: the message and the token it points at.
Err(msg, at) == [ok |-> FALSE, val |-> None, pos |-> at, err |-> msg]

\* Cursor::advance_token skips comments: the index of the next token that is
\* not a comment, Len(toks) + 1 when there is none.
RECURSIVE NextTok(_)
NextTok(p) ==
    IF p > Len(toks) THEN Len(toks) + 1
    ELSE IF IsComment(toks[p]) THEN NextTok(p + 1)
    ELSE p

AtKind(p, k) == NextTok(p) <= Len(toks) /\ toks[NextTok(p)].k = k

\* Parser::is_empty: the next token is ) or the end of the input.
IsEmpty(p) == NextTok(p) > Len(toks) \/ AtKind(p, "RParen")

PeekLParen(p) == AtKind(p, "LParen")
PeekId(p) == AtKind(p, "Id")
PeekKeyword(p, kw) == AtKind(p, "Keyword") /\ toks[NextTok(p)].s = kw
PeekReserved(p, r) == AtKind(p, "Reserved") /\ toks[NextTok(p)].s = r
\* Parser::peek2: skip one token, then peek.
Peek2Keyword(p, kw) == NextTok(p) <= Len(toks) /\ PeekKeyword(NextTok(p) + 1, kw)
Peek2Reserved(p, r) == NextTok(p) <= Len(toks) /\ PeekReserved(NextTok(p) + 1, r)

\* Parser::cur_span: the place of the next token.
CurSpan(p) == NextTok(p)

LParenParse(p) ==
    IF PeekLParen(p) THEN Ok("(", NextTok(p) + 1) ELSE Err(<<"expected (">>, NextTok(p))
RParenParse(p) ==
    IF AtKind(p, "RParen") THEN Ok(")", NextTok(p) + 1)
    ELSE Err(<<"expected )">>, NextTok(p))
KeywordParse(p, kw) ==
    IF PeekKeyword(p, kw) THEN Ok(kw, NextTok(p) + 1)
    ELSE Err(<<"expected keyword", kw>>, NextTok(p))
\* A name that may also be written as a quoted string.
IdParseOrString(p) ==
    IF PeekId(p) \/ AtKind(p, "String") THEN Ok(toks[NextTok(p)].s, NextTok(p) + 1)
    ELSE Err(<<"expected an identifier">>, NextTok(p))
IdParse(p) ==
    IF PeekId(p) THEN Ok(toks[NextTok(p)].s, NextTok(p) + 1)
    ELSE Err(<<"expected an identifier">>, NextTok(p))
StrParse(p) ==
    IF AtKind(p, "String") THEN Ok(toks[NextTok(p)].s, NextTok(p) + 1)
    ELSE Err(<<"expected a string">>, NextTok(p))

(***************************************************************************)
(* mod kw (lines 17-42): the text of each keyword.  custom_keyword!(name)  *)
(* matches the keyword whose text is stringify!(name).                     *)
(***************************************************************************)
kw_array == "array"
kw_const_pointer == "const_pointer"
kw_pointer == "pointer"
kw_field == "field"
kw_enum == "enum"
kw_flags == "flags"
kw_struct == "struct"
kw_union == "union"
kw_handle == "handle"
kw_use == "use"
kw_typename == "typename"
kw_module == "module"
kw_import == "import"
kw_memory == "memory"
kw_export == "export"
kw_func == "func"
kw_param == "param"
kw_result == "result"

\* BuiltinType::parse: the lookahead chain, keyword -> variant, in its order.
BuiltinTable ==
    << <<"string", "String">>, <<"u8", "U8">>, <<"u16", "U16">>, <<"u32", "U32">>,
       <<"u64", "U64">>, <<"s8", "S8">>, <<"s16", "S16">>, <<"s32", "S32">>,
       <<"s64", "S64">>, <<"f32", "F32">>, <<"f64", "F64">> >>

BuiltinTypeParse(p) ==
    LET hits == {i \in 1..Len(BuiltinTable) : PeekKeyword(p, BuiltinTable[i][1])}
    IN  IF hits = {} THEN Err(<<"unexpected token, expected a builtin type">>, NextTok(p))
        ELSE Ok(BuiltinTable[Min(hits)][2], NextTok(p) + 1)

(***************************************************************************)
(* CommentSyntax                                                           *)
(***************************************************************************)
\* The match of lines 116-119: the text of the comment without its delimiters.
StripDelimiters(t) ==
    IF t.k = "BlockComment" THEN SubSeq(t.c, 3, Len(t.c) - 2)
    ELSE SubSeq(t.c, 3, Len(t.c))

\* A cursor that sees line comments only.
CursorCommentLineOnly(p) == p <= Len(toks) /\ toks[p].k = "LineComment"

\* Cursor::comment: the comment at the cursor, if the token there is one.
CursorComment(p) == p <= Len(toks) /\ IsComment(toks[p])

\* The loop of CommentSyntax::parse, from cursor p with acc pushed so far.
RECURSIVE CommentLoop(_, _)
CommentLoop(p, acc) ==
    IF CursorComment(p) THEN CommentLoop(p + 1, Append(acc, StripDelimiters(toks[p])))
    ELSE Ok([comments |-> acc], p)

CommentSyntaxParse(p) == CommentLoop(p, <<>>)

\* CommentSyntax::docs.  The result is the String returned, or a panic: the
\* slice doc[to_trim..] panics when to_trim is not a character boundary.
Returned(s) == [panic |-> FALSE, ret |-> s]
Panic == [panic |-> TRUE, ret |-> <<>>]

DocLines(self) ==
    LET trimmed == [i \in 1..Len(self.comments) |-> TrimEnd(self.comments[i])]
        isDoc(d) == StartsWith(d, ";")
        kept == SelectSeq(trimmed, isDoc)
    IN  [i \in 1..Len(kept) |-> Tail(kept[i])]

ToTrim(lines) ==
    LET nonEmpty == {i \in 1..Len(lines) : lines[i] # <<>>}
    IN  IF nonEmpty = {} THEN 0
        ELSE Min({ByteLen(lines[i]) - ByteLen(Trim(lines[i])) : i \in nonEmpty})

CommentSyntaxDocs(self) ==
    LET lines == DocLines(self)
        to_trim == ToTrim(lines)
        line(i) ==
            (IF lines[i] # <<>> THEN TrimEnd(ByteSliceFrom(lines[i], to_trim)) ELSE <<>>)
                \o <<"\n">>
    IN  IF \E i \in 1..Len(lines) : lines[i] # <<>> /\ ~IsCharBoundary(lines[i], to_trim)
        THEN Panic
        ELSE Returned(Flatten([i \in 1..Len(lines) |-> line(i)]))

(***************************************************************************)
(* Parser::parens: (, then the rule Inner, then ).  On a failure the       *)
(* cursor is put back before the (.                                        *)
(***************************************************************************)
\* r, then the rule F on the value and the cursor r left; a failure of r is
\* passed on as it is (the ? operator).  x is the one value of r.
Bind(r, F(_, _)) == CHOOSE y \in {IF x.ok THEN F(x.val, x.pos) ELSE x : x \in {r}} : TRUE

\* Ok(f(v)) of a result Ok(v); a failure is passed on as it is.
Then(r, F(_)) == Bind(r, LAMBDA v, q : Ok(F(v), q))

Parens(p, Inner(_)) ==
    Bind(LParenParse(p), LAMBDA l, q :
    Bind(Inner(q), LAMBDA v, q1 :
    Bind(RParenParse(q1), LAMBDA c, q2 :
    Ok(v, q2))))


(***************************************************************************)
(* DatatypeIdentSyntax                                                     *)
(***************************************************************************)
Builtin(ty) == [tag |-> "Builtin", ty |-> ty]
Array(t) == [tag |-> "Array", of |-> t]
Pointer(t) == [tag |-> "Pointer", of |-> t]
ConstPointer(t) == [tag |-> "ConstPointer", of |-> t]
Ident(name) == [tag |-> "Ident", id |-> name]

AtWitxParse(p) ==
    IF PeekReserved(p, "@witx") THEN Ok("@witx", NextTok(p) + 1)
    ELSE Err(<<"expected @witx">>, NextTok(p))

AtInterfaceParse(p) ==
    IF PeekReserved(p, "@interface") THEN Ok("@interface", NextTok(p) + 1)
    ELSE Err(<<"expected @interface">>, NextTok(p))

RECURSIVE DatatypeIdentSyntaxParse(_)

\* The alternatives tried in another order: any parenthesized form is taken
\* for a pointer form before the array form is looked for.
DatatypeIdentSyntaxParsePointerFirst(p) ==
    IF PeekId(p) THEN Then(IdParse(p), Ident)
    ELSE IF PeekLParen(p) THEN
        LET body(q) ==
                LET w == AtWitxParse(q)
                IN  IF ~w.ok THEN w
                    ELSE IF PeekKeyword(w.pos, kw_const_pointer)
                    THEN Then(DatatypeIdentSyntaxParse(
                                  KeywordParse(w.pos, kw_const_pointer).pos), ConstPointer)
                    ELSE LET k == KeywordParse(w.pos, kw_pointer)
                         IN  IF ~k.ok THEN k
                             ELSE Then(DatatypeIdentSyntaxParse(k.pos), Pointer)
        IN  Parens(p, body)
    ELSE IF Peek2Keyword(p, kw_array) THEN
        LET body(q) ==
                LET k == KeywordParse(q, kw_array)
                IN  IF ~k.ok THEN k ELSE Then(DatatypeIdentSyntaxParse(k.pos), Array)
        IN  Parens(p, body)
    ELSE Then(BuiltinTypeParse(p), Builtin)

DatatypeIdentSyntaxParse(p) ==
    IF PeekId(p) THEN Then(IdParse(p), Ident)
    ELSE IF Peek2Keyword(p, kw_array) THEN
        LET body(q) ==
                LET k == KeywordParse(q, kw_array)
                IN  IF ~k.ok THEN k ELSE Then(DatatypeIdentSyntaxParse(k.pos), Array)
        IN  Parens(p, body)
    ELSE IF PeekLParen(p) THEN
        LET body(q) ==
                LET w == AtWitxParse(q)
                IN  IF ~w.ok THEN w
                    ELSE IF PeekKeyword(w.pos, kw_const_pointer)
                    THEN Then(DatatypeIdentSyntaxParse(
                                  KeywordParse(w.pos, kw_const_pointer).pos), ConstPointer)
                    ELSE LET k == KeywordParse(w.pos, kw_pointer)
                         IN  IF ~k.ok THEN k
                             ELSE Then(DatatypeIdentSyntaxParse(k.pos), Pointer)
        IN  Parens(p, body)
    ELSE Then(BuiltinTypeParse(p), Builtin)


\* lookahead1().error(): none of the alternatives tried matched.
LookaheadError(p, expected) ==
    Err(<<"unexpected token, expected one of">> \o expected, NextTok(p))

(***************************************************************************)
(* The syntax tree.                                                        *)
(***************************************************************************)
Documented(comments, item) == [comments |-> comments, item |-> item]
FieldSyntax(name, type_) == [name |-> name, type_ |-> type_]
Use(path) == [tag |-> "Use", path |-> path]
Decl(d) == [tag |-> "Decl", decl |-> d]
Typename(ident, def) == [tag |-> "Typename", ident |-> ident, def |-> def]
Module(name, decls) == [tag |-> "Module", name |-> name, decls |-> decls]
TypedefSyntaxIdent(dt) == [tag |-> "Ident", dt |-> dt]
Enum(repr, members) == [tag |-> "Enum", repr |-> repr, members |-> members]
Flags(repr, flags) == [tag |-> "Flags", repr |-> repr, flags |-> flags]
Struct(fields) == [tag |-> "Struct", fields |-> fields]
Union(fields) == [tag |-> "Union", fields |-> fields]
Handle(supertypes) == [tag |-> "Handle", supertypes |-> supertypes]
Import(i) == [tag |-> "Import", import |-> i]
Func(f) == [tag |-> "Func", func |-> f]
ModuleImportSyntax(name, name_loc, type_) ==
    [name |-> name, name_loc |-> name_loc, type_ |-> type_]
InterfaceFuncSyntax(export, export_loc, params, results) ==
    [export |-> export, export_loc |-> export_loc, params |-> params, results |-> results]
TopLevelDocument(its) == [items |-> its]

\* PartialEq for ModuleImportSyntax and for InterfaceFuncSyntax, written by
\* hand to skip name_loc and export_loc; the other types derive theirs, and
\* wast::Id compares by name.
\* The equality a derive would have given: every field, name_loc too.
ModuleImportSyntaxEqDerived(a, b) == a = b
ModuleImportSyntaxEq(a, b) == a.name = b.name /\ a.type_ = b.type_
InterfaceFuncSyntaxEq(a, b) ==
    a.export = b.export /\ a.params = b.params /\ a.results = b.results
ModuleDeclSyntaxEq(a, b) ==
    /\ a.tag = b.tag
    /\ IF a.tag = "Import" THEN ModuleImportSyntaxEq(a.import, b.import)
       ELSE InterfaceFuncSyntaxEq(a.func, b.func)

(***************************************************************************)
(* The rules without a loop.                                               *)
(***************************************************************************)
\* Documented::parse: the comments, then the item.
DocumentedParse(p, Item(_)) ==
    LET c == CommentSyntaxParse(p)
    IN  Bind(Item(c.pos), LAMBDA item, q : Ok(Documented(c.val, item), q))

\* A name and a type: the two fields of a FieldSyntax, parsed in this order.
NameAndType(p) ==
    Bind(IdParse(p), LAMBDA name, q :
    Bind(DatatypeIdentSyntaxParse(q), LAMBDA type_, q2 :
    Ok(FieldSyntax(name, type_), q2)))

FieldSyntaxParse(p) ==
    Parens(p, LAMBDA q : Bind(KeywordParse(q, kw_field), LAMBDA k, q1 : NameAndType(q1)))

\* A member that is read and left where it is.
DocumentedIdParseStay(p) ==
    Bind(DocumentedParse(p, IdParse), LAMBDA m, q : Ok(m, p))
DocumentedIdParse(p) == DocumentedParse(p, IdParse)
DocumentedFieldParse(p) == DocumentedParse(p, FieldSyntaxParse)

\* A field of either kind is filed as a parameter.
InterfaceFuncFieldParseAllParams(p) ==
    Parens(p, LAMBDA q :
        IF PeekKeyword(q, kw_param) \/ PeekKeyword(q, kw_result)
        THEN Bind(NameAndType(NextTok(q) + 1), LAMBDA f, q2 :
                  Ok([variant |-> "Param", field |-> f], q2))
        ELSE LookaheadError(q, <<kw_param, kw_result>>))

InterfaceFuncFieldParse(p) ==
    Parens(p, LAMBDA q :
        IF PeekKeyword(q, kw_param)
        THEN Bind(KeywordParse(q, kw_param), LAMBDA k, q1 :
             Bind(NameAndType(q1), LAMBDA f, q2 :
             Ok([variant |-> "Param", field |-> f], q2)))
        ELSE IF PeekKeyword(q, kw_result)
        THEN Bind(KeywordParse(q, kw_result), LAMBDA k, q1 :
             Bind(NameAndType(q1), LAMBDA f, q2 :
             Ok([variant |-> "Result", field |-> f], q2)))
        ELSE LookaheadError(q, <<kw_param, kw_result>>))

DocumentedInterfaceFuncFieldParse(p) == DocumentedParse(p, InterfaceFuncFieldParse)

ImportTypeSyntaxParse(p) == Then(KeywordParse(p, kw_memory), LAMBDA k : "Memory")

ModuleImportSyntaxParse(p) ==
    Bind(KeywordParse(p, kw_import), LAMBDA k, q :
    Bind(StrParse(q), LAMBDA name, q1 :
    Bind(Parens(q1, ImportTypeSyntaxParse), LAMBDA type_, q2 :
    Ok(ModuleImportSyntax(name, CurSpan(q), type_), q2))))

(***************************************************************************)
(* The rules with a loop, up to the loop.  Each gives what the loop starts *)
(* from: kind names the loop, list is the vector pushed to.                *)
(***************************************************************************)
Loop(kind, ident, repr, list) ==
    [kind |-> kind, ident |-> ident, repr |-> repr, list |-> list]

\* An enum whose first member is not required.
EnumSyntaxBeginNoFirst(p) ==
    Bind(KeywordParse(p, kw_enum), LAMBDA k, q :
    Bind(BuiltinTypeParse(q), LAMBDA repr, q1 :
    Ok(Loop("enum", None, repr, <<>>), q1)))

EnumSyntaxBegin(p) ==
    Bind(KeywordParse(p, kw_enum), LAMBDA k, q :
    Bind(BuiltinTypeParse(q), LAMBDA repr, q1 :
    Bind(DocumentedIdParse(q1), LAMBDA m, q2 :
    Ok(Loop("enum", None, repr, <<m>>), q2))))

FlagsSyntaxBegin(p) ==
    Bind(KeywordParse(p, kw_flags), LAMBDA k, q :
    Bind(BuiltinTypeParse(q), LAMBDA repr, q1 :
    Ok(Loop("flags", None, repr, <<>>), q1)))

StructSyntaxBegin(p) ==
    Bind(KeywordParse(p, kw_struct), LAMBDA k, q :
    Bind(DocumentedFieldParse(q), LAMBDA f, q1 :
    Ok(Loop("struct", None, None, <<f>>), q1)))

UnionSyntaxBegin(p) ==
    Bind(KeywordParse(p, kw_union), LAMBDA k, q :
    Bind(DocumentedFieldParse(q), LAMBDA f, q1 :
    Ok(Loop("union", None, None, <<f>>), q1)))

HandleSyntaxBegin(p) ==
    Bind(KeywordParse(p, kw_handle), LAMBDA k, q :
    Ok(Loop("handle", None, None, <<>>), q))

\* The test of line 342: the body is a type reference.
\* The test without its last disjunct: a pointer form is no alias.
IsAliasNoPointer(p) == ~PeekLParen(p) \/ Peek2Keyword(p, kw_array)

IsAlias(p) ==
    ~PeekLParen(p) \/ Peek2Keyword(p, kw_array) \/ Peek2Reserved(p, "@witx")

\* TypedefSyntax::parse: an alias, which is complete, or the start of a loop.
TypedefSyntaxBegin(p) ==
    IF IsAlias(p)
    THEN Then(DatatypeIdentSyntaxParse(p),
              LAMBDA dt : [kind |-> "item", def |-> TypedefSyntaxIdent(dt)])
    ELSE Bind(LParenParse(p), LAMBDA x, q :
         IF PeekKeyword(q, kw_enum) THEN EnumSyntaxBegin(q)
         ELSE IF PeekKeyword(q, kw_flags) THEN FlagsSyntaxBegin(q)
         ELSE IF PeekKeyword(q, kw_struct) THEN StructSyntaxBegin(q)
         ELSE IF PeekKeyword(q, kw_union) THEN UnionSyntaxBegin(q)
         ELSE IF PeekKeyword(q, kw_handle) THEN HandleSyntaxBegin(q)
         ELSE LookaheadError(q, <<kw_enum, kw_flags, kw_struct, kw_union, kw_handle>>))

TypenameSyntaxBegin(p) ==
    Bind(KeywordParse(p, kw_typename), LAMBDA k, q :
    Bind(IdParse(q), LAMBDA ident, q1 :
    Bind(TypedefSyntaxBegin(q1), LAMBDA o, q2 :
    IF o.kind = "item"
    THEN Ok([kind |-> "item", item |-> Typename(ident, o.def)], q2)
    ELSE Ok(Loop(o.kind, ident, o.repr, o.list), q2))))

ModuleSyntaxBegin(p) ==
    Bind(KeywordParse(p, kw_module), LAMBDA k, q :
    Bind(IdParse(q), LAMBDA name, q1 :
    Ok(Loop("module", name, None, <<>>), q1)))

DeclSyntaxBegin(p) ==
    IF PeekKeyword(p, kw_module) THEN ModuleSyntaxBegin(p)
    ELSE IF PeekKeyword(p, kw_typename) THEN TypenameSyntaxBegin(p)
    ELSE LookaheadError(p, <<kw_module, kw_typename>>)

\* TopLevelSyntax::parse: a complete item and its ), or the start of a loop.
TopLevelSyntaxBegin(p) ==
    Bind(LParenParse(p), LAMBDA x, q :
    IF PeekKeyword(q, kw_use)
    THEN Bind(KeywordParse(q, kw_use), LAMBDA k, q1 :
         Bind(StrParse(q1), LAMBDA path, q2 :
         Bind(RParenParse(q2), LAMBDA y, q3 :
         Ok([kind |-> "item", item |-> Use(path)], q3))))
    ELSE Bind(DeclSyntaxBegin(q), LAMBDA o, q1 :
         IF o.kind = "item"
         THEN Bind(RParenParse(q1), LAMBDA y, q2 :
              Ok([kind |-> "item", item |-> Decl(o.item)], q2))
         ELSE Ok(o, q1)))

\* InterfaceFuncSyntax::parse up to its loop.
InterfaceFuncSyntaxBegin(p) ==
    Bind(AtInterfaceParse(p), LAMBDA a, q :
    Bind(KeywordParse(q, kw_func), LAMBDA k, q1 :
    Bind(Parens(q1, LAMBDA e :
             Bind(KeywordParse(e, kw_export), LAMBDA k2, e1 :
             Bind(StrParse(e1), LAMBDA export, e2 :
             Ok([export_loc |-> CurSpan(e1), export |-> export], e2)))),
         LAMBDA ex, q2 :
    Ok([kind |-> "func", export |-> ex.export, export_loc |-> ex.export_loc], q2))))

\* ModuleDeclSyntax::parse: a complete import and its ), or the start of the
\* loop of an interface function.
ModuleDeclSyntaxBegin(p) ==
    Bind(LParenParse(p), LAMBDA x, q :
    IF PeekKeyword(q, kw_import)
    THEN Bind(ModuleImportSyntaxParse(q), LAMBDA i, q1 :
         Bind(RParenParse(q1), LAMBDA y, q2 :
         Ok([kind |-> "item", item |-> Import(i)], q2)))
    ELSE IF PeekReserved(q, "@interface") THEN InterfaceFuncSyntaxBegin(q)
    ELSE LookaheadError(q, <<kw_import, "@interface">>))

(***************************************************************************)
(* TopLevelDocument::parse, loop by loop.  pc names the innermost loop     *)
(* that is running; outer is the open top-level form (a module, or the     *)
(* typename of an enum, flags, struct, union or handle) and inner the open *)
(* interface function of a module.                                         *)
(***************************************************************************)
\* A failure leaves through every enclosing rule by ?: the parens that
\* were entered put the cursor back before the top-level form (at), the
\* vectors built so far are dropped and the error is what parse returns.
FailedBestEffort(r, at) ==
    /\ pc' = "err"
    /\ error' = [msg |-> r.err, at |-> r.pos]
    /\ tree' = TopLevelDocument(items)
    /\ cur' = at
    /\ UNCHANGED <<toks, items, outer, inner, parsed, docs>>

Failed(r, at) ==
    /\ pc' = "err"
    /\ error' = [msg |-> r.err, at |-> r.pos]
    /\ tree' = None
    /\ cur' = at
    /\ UNCHANGED <<toks, items, outer, inner, parsed, docs>>

\* while !parser.is_empty() { items.push(parser.parse()?) }, one iteration,
\* as far as the first loop inside the item.
DocumentIter ==
    /\ pc = "document"
    /\ ~IsEmpty(cur)
    /\ \E c \in {CommentSyntaxParse(cur)} : \E r \in {TopLevelSyntaxBegin(c.pos)} :
           IF ~r.ok THEN Failed(r, c.pos)
           ELSE IF r.val.kind = "item"
           THEN /\ items' = Append(items, Documented(c.val, r.val.item))
                /\ cur' = r.pos
                /\ UNCHANGED <<toks, pc, outer, inner, tree, error, parsed, docs>>
           ELSE /\ pc' = r.val.kind
                /\ outer' = [comments |-> c.val, before |-> c.pos, ident |-> r.val.ident,
                             repr |-> r.val.repr, list |-> r.val.list]
                /\ cur' = r.pos
                /\ UNCHANGED <<toks, items, inner, tree, error, parsed, docs>>

\* Ok(TopLevelDocument { items })
DocumentDone ==
    /\ pc = "document"
    /\ IsEmpty(cur)
    /\ pc' = "ok"
    /\ tree' = TopLevelDocument(items)
    /\ UNCHANGED <<toks, cur, items, outer, inner, error, parsed, docs>>

\* The ) of the top-level form, then items.push of the declaration.
PushDecl(d, p) ==
    LET c == RParenParse(p)
    IN  IF ~c.ok THEN Failed(c, outer.before)
        ELSE /\ items' = Append(items, Documented(outer.comments, Decl(d)))
             /\ cur' = c.pos
             /\ pc' = "document"
             /\ outer' = None
             /\ UNCHANGED <<toks, inner, tree, error, parsed, docs>>

\* The loop of a type definition is over: the ) of the definition, then the
\* typename is complete.
TypedefDone(def) ==
    LET c == RParenParse(cur)
    IN  IF ~c.ok THEN Failed(c, outer.before)
        ELSE PushDecl(Typename(outer.ident, def), c.pos)

\* One iteration of the loop of a type definition: list.push(parser.parse()?)
TypedefIter(Item(_)) ==
    \E r \in {Item(cur)} :
        IF ~r.ok THEN Failed(r, outer.before)
        ELSE /\ outer' = [outer EXCEPT !.list = Append(@, r.val)]
             /\ cur' = r.pos
             /\ UNCHANGED <<toks, pc, items, inner, tree, error, parsed, docs>>

EnumIter == pc = "enum" /\ ~IsEmpty(cur) /\ TypedefIter(DocumentedIdParse)
EnumDone == pc = "enum" /\ IsEmpty(cur) /\ TypedefDone(Enum(outer.repr, outer.list))

FlagsIter == pc = "flags" /\ ~IsEmpty(cur) /\ TypedefIter(DocumentedIdParse)
FlagsDone == pc = "flags" /\ IsEmpty(cur) /\ TypedefDone(Flags(outer.repr, outer.list))

StructIter == pc = "struct" /\ ~IsEmpty(cur) /\ TypedefIter(DocumentedFieldParse)
StructDone == pc = "struct" /\ IsEmpty(cur) /\ TypedefDone(Struct(outer.list))

UnionIter == pc = "union" /\ ~IsEmpty(cur) /\ TypedefIter(DocumentedFieldParse)
UnionDone == pc = "union" /\ IsEmpty(cur) /\ TypedefDone(Union(outer.list))

HandleIter == pc = "handle" /\ ~IsEmpty(cur) /\ TypedefIter(IdParse)
HandleDone == pc = "handle" /\ IsEmpty(cur) /\ TypedefDone(Handle(outer.list))

\* ModuleSyntax::parse: while !parser.is_empty() { decls.push(parser.parse()?) },
\* one iteration, as far as the loop of an interface function.
ModuleIter ==
    /\ pc = "module"
    /\ ~IsEmpty(cur)
    /\ \E c \in {CommentSyntaxParse(cur)} : \E r \in {ModuleDeclSyntaxBegin(c.pos)} :
           IF ~r.ok THEN Failed(r, outer.before)
           ELSE IF r.val.kind = "item"
           THEN /\ outer' = [outer EXCEPT !.list = Append(@, Documented(c.val, r.val.item))]
                /\ cur' = r.pos
                /\ UNCHANGED <<toks, pc, items, inner, tree, error, parsed, docs>>
           ELSE /\ pc' = "func"
                /\ inner' = [comments |-> c.val, export |-> r.val.export,
                             export_loc |-> r.val.export_loc,
                             params |-> <<>>, results |-> <<>>]
                /\ cur' = r.pos
                /\ UNCHANGED <<toks, items, outer, tree, error, parsed, docs>>

ModuleDone ==
    /\ pc = "module"
    /\ IsEmpty(cur)
    /\ PushDecl(Module(outer.ident, outer.list), cur)

\* InterfaceFuncSyntax::parse: one iteration of its loop.
FuncIter ==
    /\ pc = "func"
    /\ ~IsEmpty(cur)
    /\ \E r \in {DocumentedInterfaceFuncFieldParse(cur)} :
           IF ~r.ok THEN Failed(r, outer.before)
           ELSE LET d == Documented(r.val.comments, r.val.item.field)
                IN  /\ inner' = IF r.val.item.variant = "Param"
                                THEN [inner EXCEPT !.params = Append(@, d)]
                                ELSE [inner EXCEPT !.results = Append(@, d)]
                    /\ cur' = r.pos
                    /\ UNCHANGED <<toks, pc, items, outer, tree, error, parsed, docs>>

\* The function is complete: the ) of the declaration, then decls.push.
FuncDone ==
    /\ pc = "func"
    /\ IsEmpty(cur)
    /\ LET c == RParenParse(cur)
           f == InterfaceFuncSyntax(inner.export, inner.export_loc,
                                    inner.params, inner.results)
       IN  IF ~c.ok THEN Failed(c, outer.before)
           ELSE /\ outer' = [outer EXCEPT
                                !.list = Append(@, Documented(inner.comments, Func(f)))]
                /\ cur' = c.pos
                /\ pc' = "module"
                /\ inner' = None
                /\ UNCHANGED <<toks, items, tree, error, parsed, docs>>

Next ==
    \/ DocumentIter \/ DocumentDone
    \/ ModuleIter \/ ModuleDone
    \/ FuncIter \/ FuncDone
    \/ EnumIter \/ EnumDone
    \/ FlagsIter \/ FlagsDone
    \/ StructIter \/ StructDone
    \/ UnionIter \/ UnionDone
    \/ HandleIter \/ HandleDone

(***************************************************************************)
(* The documents the parser is run on.                                     *)
(***************************************************************************)
SeqsUpTo(S, n) == UNION {[1..k -> S] : k \in 0..n}

MaxFields == 3
MaxMembers == 2
MaxItems == 2

DocLine == LineComment(<<";", " ", "d">>)
DocBlock == BlockComment(<<";", " ", "e", " ">>)
PlainLine == LineComment(<<" ", "n">>)

UseForm(path) == <<LP, Kw("use"), Str(path), RP>>
TypenameForm(name, body) == <<LP, Kw("typename"), Id(name)>> \o body \o <<RP>>
ModuleForm(name, decls) == <<LP, Kw("module"), Id(name)>> \o decls \o <<RP>>
ImportForm(name) == <<LP, Kw("import"), Str(name), LP, Kw("memory"), RP, RP>>
FuncForm(export, fields) ==
    <<LP, Res("@interface"), Kw("func"), LP, Kw("export"), Str(export), RP>>
        \o fields \o <<RP>>
FieldForm(kw, name, type) == <<LP, Kw(kw)>> \o name \o type \o <<RP>>
ListForm(head, members) == <<LP>> \o head \o members \o <<RP>>

\* Parameters and results, with and without documentation.
FuncFields ==
    {FieldForm("param", <<Id("a")>>, <<Kw("u8")>>),
     <<DocLine>> \o FieldForm("param", <<Id("c")>>, <<LP, Kw("array"), Id("t"), RP>>),
     FieldForm("result", <<Id("b")>>, <<Kw("u8")>>),
     <<DocBlock, PlainLine>>
         \o FieldForm("result", <<Id("d")>>, <<LP, Res("@witx"), Kw("pointer"), Kw("s32"), RP>>)}

FuncDocuments ==
    {ModuleForm("m", FuncForm("f", Flatten(fs))) : fs \in SeqsUpTo(FuncFields, MaxFields)}

Members == {<<Id("a")>>, <<DocLine, Id("b")>>}
StructFields ==
    {FieldForm("field", <<Id("a")>>, <<Kw("u8")>>),
     FieldForm("field", <<Str("a")>>, <<Kw("u8")>>),
     <<DocLine>> \o FieldForm("field", <<Id("b")>>, <<Id("t")>>)}

TypeBodies ==
    {<<Kw("u32")>>, <<Id("x")>>, <<Kw("foo")>>, <<Str("s")>>, <<>>,
     <<LP, Kw("array"), Kw("u8"), RP>>, <<Kw("u8"), Kw("array")>>,
     <<LP, Res("@witx"), Kw("pointer"), Kw("u8"), RP>>,
     <<LP, Res("@witx"), Kw("const_pointer"), Id("x"), RP>>,
     <<LP, Res("@witx"), Kw("const-pointer"), Kw("u8"), RP>>,
     <<LP, Res("@witx"), Kw("enum"), Kw("u8"), Id("a"), RP>>,
     <<LP, Kw("foo"), RP>>, <<LP, RP>>, <<LP, Id("x"), RP>>,
     <<LP, PlainLine, Kw("enum"), Kw("u8"), Id("a"), RP>>,
     <<LP, Kw("enum"), Id("a"), RP>>,
     <<LP, Kw("handle"), Kw("u8"), RP>>,
     <<LP, Kw("struct"), Id("a"), RP>>}
    \cup {ListForm(<<Kw("enum"), Kw("u8")>>, Flatten(ms)) : ms \in SeqsUpTo(Members, MaxMembers)}
    \cup {ListForm(<<Kw("flags"), Kw("u32")>>, Flatten(ms)) : ms \in SeqsUpTo(Members, MaxMembers)}
    \cup {ListForm(<<Kw("handle")>>, Flatten(ms)) : ms \in SeqsUpTo({<<Id("a")>>, <<Id("b")>>}, MaxMembers)}
    \cup {ListForm(<<Kw("struct")>>, Flatten(fs)) : fs \in SeqsUpTo(StructFields, MaxMembers)}
    \cup {ListForm(<<Kw("union")>>, Flatten(fs)) : fs \in SeqsUpTo(StructFields, MaxMembers)}

TypeDocuments == {TypenameForm("t", b) : b \in TypeBodies}

\* Module declarations, the same one more than once among them.
ModuleDecls ==
    {ImportForm("mem"), <<DocLine>> \o ImportForm("mem"), ImportForm("other"),
     FuncForm("f", FieldForm("param", <<Id("a")>>, <<Kw("u8")>>)),
     <<PlainLine>> \o FuncForm("f", FieldForm("param", <<Id("a")>>, <<Kw("u8")>>)),
     FuncForm("g", <<>>)}
ModuleDocuments ==
    {ModuleForm("m", Flatten(ds)) : ds \in SeqsUpTo(ModuleDecls, MaxItems)}

\* Top-level items, well formed and not, comments and stray parentheses.
TopLevelPool ==
    {UseForm("x"), UseForm("y"), <<DocLine>> \o TypenameForm("t", <<Kw("u32")>>),
     ModuleForm("m", ImportForm("mem")), <<PlainLine>>, <<RP>>,
     TypenameForm("u", <<LP, Kw("flags"), Kw("u8"), RP>>),
     <<LP, Kw("use"), Id("x"), RP>>}
TopLevelDocuments == {Flatten(ds) : ds \in SeqsUpTo(TopLevelPool, MaxItems)}

\* The document of the end-to-end example, and one with every form.
EndToEnd ==
    TypenameForm("foo", <<Kw("u32")>>)
    \o ModuleForm("bar",
           ImportForm("mem")
           \o FuncForm("f", FieldForm("param", <<Id("x")>>, <<Id("foo")>>)
                            \o FieldForm("result", <<Id("y")>>, <<Kw("s64")>>)))
EveryForm ==
    <<DocLine>> \o UseForm("x")
    \o TypenameForm("e", ListForm(<<Kw("enum"), Kw("u8")>>, <<Id("a"), DocLine, Id("b")>>))
    \o TypenameForm("s", ListForm(<<Kw("struct")>>,
                                  FieldForm("field", <<Id("a")>>, <<Kw("u8")>>)))
    \o TypenameForm("h", ListForm(<<Kw("handle")>>, <<Id("a")>>))

\* One token of a document replaced by another, or left out.
Replacements == {LP, RP, Kw("foo"), Id("z"), Str("s"), PlainLine}
Damaged(d) ==
    {[d EXCEPT ![i] = t] : i \in 1..Len(d), t \in Replacements}
    \cup {SubSeq(d, 1, i - 1) \o SubSeq(d, i + 1, Len(d)) : i \in 1..Len(d)}
    \cup {SubSeq(d, 1, i) : i \in 0..Len(d)}

Documents ==
    FuncDocuments \cup TypeDocuments \cup ModuleDocuments \cup TopLevelDocuments
    \cup Damaged(EndToEnd) \cup Damaged(EveryForm)

Init ==
    /\ toks \in Documents
    /\ cur = 1
    /\ pc = "document"
    /\ items = <<>>
    /\ outer = None
    /\ inner = None
    /\ tree = None
    /\ error = None
    /\ parsed = None
    /\ docs = None

Spec == Init /\ [][Next]_vars

\* The parser runs to its return: no step of it waits for anything.
SpecLive == Spec /\ WF_vars(Next)

(***************************************************************************)
(* Reading the source text directly, for the statements below.             *)
(***************************************************************************)
IsTok(i, t) == i \in 1..Len(toks) /\ toks[i] = t

\* How many parentheses are open before token i.
Depth(i) ==
    Cardinality({j \in 1..(i - 1) : toks[j] = LP})
        - Cardinality({j \in 1..(i - 1) : toks[j] = RP})

\* The elements of a set of numbers in ascending order.
RECURSIVE Ascending(_)
Ascending(S) == IF S = {} THEN <<>> ELSE <<Min(S)>> \o Ascending(S \ {Min(S)})

\* The ( of the forms that lie d parentheses deep in toks[lo..hi-1].
FormsAt(d, lo, hi) == Ascending({i \in lo..(hi - 1) : toks[i] = LP /\ Depth(i) = d})

\* The ) that closes the form opened at i (Len(toks) + 1 when none does).
CloseOf(i) ==
    LET after == {j \in (i + 1)..Len(toks) : toks[j] = RP /\ Depth(j) = Depth(i) + 1}
    IN  IF after = {} THEN Len(toks) + 1 ELSE Min(after)

\* The first, second and third token of the form opened at i, comments aside.
Word1(i) == NextTok(i + 1)
Word2(i) == NextTok(Word1(i) + 1)
Word3(i) == NextTok(Word2(i) + 1)

\* x is the text of comment token t: t is x between the delimiters.
IsTextOf(x, t) ==
    \/ t.k = "LineComment" /\ t = LineComment(x)
    \/ t.k = "BlockComment" /\ t = BlockComment(x)

\* The comment tokens that directly precede token i.
RECURSIVE RunBefore(_)
RunBefore(i) ==
    IF i > 1 /\ IsComment(toks[i - 1]) THEN RunBefore(i - 1) ELSE i

\* c holds the texts of exactly the comments that directly precede token i.
IsDocumentationOf(c, i) ==
    LET from == RunBefore(i)
    IN  /\ Len(c.comments) = i - from
        /\ \A k \in 1..(i - from) : IsTextOf(c.comments[k], toks[from + k - 1])

(***************************************************************************)
(* C1.  A successful InterfaceFuncSyntax::parse returns as params the      *)
(* param fields of the form in source order and as results its result      *)
(* fields in source order, every field of the form in one of the two, each *)
(* with the comments that directly precede it.                             *)
(***************************************************************************)
\* The field forms of the function whose export name is at loc, as far as hi.
FieldsOf(loc, hi) == FormsAt(Depth(loc) - 1, NextTok(loc + 1) + 1, hi)

\* The ) that closes the function whose export name is at loc.
FuncEnd(loc) ==
    Min({j \in (loc + 1)..Len(toks) : toks[j] = RP /\ Depth(j) = Depth(loc) - 1}
            \cup {Len(toks) + 1})

\* d is the field written at i: its name, its type and its comments.
IsFieldAt(d, i) ==
    /\ IsTok(Word2(i), Id(d.item.name))
    /\ LET r == DatatypeIdentSyntaxParse(Word2(i) + 1)
       IN  r.ok /\ r.val = d.item.type_ /\ NextTok(r.pos) = CloseOf(i)
    /\ IsDocumentationOf(d.comments, i)

Demultiplexed(f, hi) ==
    LET fields == FieldsOf(f.export_loc, hi)
        isParam(i) == IsTok(Word1(i), Kw("param"))
        isResult(i) == IsTok(Word1(i), Kw("result"))
        ps == SelectSeq(fields, isParam)
        rs == SelectSeq(fields, isResult)
    IN  /\ Len(f.params) + Len(f.results) = Len(fields)
        /\ Len(f.params) = Len(ps)
        /\ Len(f.results) = Len(rs)
        /\ \A k \in 1..Len(ps) : IsFieldAt(f.params[k], ps[k])
        /\ \A k \in 1..Len(rs) : IsFieldAt(f.results[k], rs[k])

\* The declarations of the open module that are complete.
DeclsSoFar == IF pc \in {"module", "func"} THEN outer.list ELSE <<>>

\* C1: the open function and every complete one hold their param fields and
\* their result fields, each kind in source order, with their comments.
C1_Demultiplexed ==
    /\ pc = "func" => Demultiplexed(inner, cur)
    /\ \A k \in 1..Len(DeclsSoFar) :
          DeclsSoFar[k].item.tag = "Func" =>
              LET f == DeclsSoFar[k].item.func
              IN  Demultiplexed(f, FuncEnd(f.export_loc))

\* (param $a u8) (result $b u8) ;;; d (param $c (array $t)) was parsed:
\* params a and c, c with its comment, and result b.
C1_Witness ==
    /\ pc = "module"
    /\ Len(outer.list) = 1
    /\ outer.list[1].item.tag = "Func"
    /\ LET f == outer.list[1].item.func
       IN  /\ f.params = <<Documented([comments |-> <<>>], FieldSyntax("a", Builtin("U8"))),
                           Documented([comments |-> << <<";", " ", "d">> >>],
                                      FieldSyntax("c", Array(Ident("t"))))>>
           /\ f.results = <<Documented([comments |-> <<>>], FieldSyntax("b", Builtin("U8")))>>
           /\ IsTok(f.export_loc + 2, LP) /\ IsTok(f.export_loc + 3, Kw("param"))
           /\ IsTok(f.export_loc + 8, Kw("result"))

(***************************************************************************)
(* C10.  Two ModuleImportSyntax values are equal exactly when name and     *)
(* import type agree, two InterfaceFuncSyntax values exactly when export   *)
(* name, params and results agree, whatever name_loc and export_loc are;   *)
(* the same declaration written at two places of a module parses to equal  *)
(* values although their locations differ.                                 *)
(***************************************************************************)
\* The declaration forms of the open module, and the text of the form at i.
DeclForms == FormsAt(Depth(outer.before) + 1, outer.before + 1, cur)
TextOf(i) == SubSeq(toks, i, CloseOf(i))

LocOf(d) == IF d.tag = "Import" THEN d.import.name_loc ELSE d.func.export_loc
NoLoc(d) ==
    IF d.tag = "Import" THEN <<d.import.name, d.import.type_>>
    ELSE <<d.func.export, d.func.params, d.func.results>>

\* C10: equality is equality of all but the locations.
C10_EqualityIgnoresLocations ==
    \A i, j \in 1..Len(DeclsSoFar) :
        LET a == DeclsSoFar[i].item
            b == DeclsSoFar[j].item
        IN  /\ (a.tag = "Import" /\ b.tag = "Import") =>
                   (ModuleImportSyntaxEq(a.import, b.import) <=> NoLoc(a) = NoLoc(b))
            /\ (a.tag = "Func" /\ b.tag = "Func") =>
                   (InterfaceFuncSyntaxEq(a.func, b.func) <=> NoLoc(a) = NoLoc(b))
            /\ (i # j /\ TextOf(DeclForms[i]) = TextOf(DeclForms[j])) =>
                   (ModuleDeclSyntaxEq(a, b) /\ LocOf(a) # LocOf(b))

\* The same import twice in one module: equal, at different places.
C10_Witness ==
    /\ pc = "module"
    /\ Len(outer.list) = 2
    /\ outer.list[1].item.tag = "Import" /\ outer.list[2].item.tag = "Import"
    /\ TextOf(DeclForms[1]) = TextOf(DeclForms[2])
    /\ outer.list[1].item.import.name_loc # outer.list[2].item.import.name_loc
    /\ ModuleImportSyntaxEq(outer.list[1].item.import, outer.list[2].item.import)

(***************************************************************************)
(* The top-level forms that the parser has read, and the typename among    *)
(* them.                                                                   *)
(***************************************************************************)
TopForms == FormsAt(0, 1, cur)

IsTypenameItem(it) == it.item.tag = "Decl" /\ it.item.decl.tag = "Typename"

\* A typename form opens at i: ( typename $name, and its body follows.
IsTypenameForm(i) ==
    /\ IsTok(i, LP)
    /\ IsTok(Word1(i), Kw("typename"))
    /\ Word2(i) <= Len(toks) /\ toks[Word2(i)].k = "Id"
BodyOf(i) == Word2(i) + 1

(***************************************************************************)
(* C4.  An EnumSyntax, StructSyntax or UnionSyntax that a parse returns    *)
(* has at least one member; (enum repr), (struct) and (union) without a    *)
(* member fail; (flags repr) without a name gives the empty flags.         *)
(***************************************************************************)
\* The body of the typename form at i is ( kw ) or ( kw repr ), nothing else in it.
IsEmptyBody(i, kw, withRepr) ==
    /\ IsTypenameForm(i)
    /\ LET b == NextTok(BodyOf(i))
       IN  /\ IsTok(b, LP)
           /\ IsTok(Word1(b), Kw(kw))
           /\ IF withRepr
              THEN (\E j \in 1..Len(BuiltinTable) : IsTok(Word2(b), Kw(BuiltinTable[j][1])))
                   /\ IsTok(Word3(b), RP)
              ELSE IsTok(Word2(b), RP)

MemberCount(def) ==
    IF def.tag = "Enum" THEN Len(def.members)
    ELSE IF def.tag \in {"Struct", "Union"} THEN Len(def.fields)
    ELSE 1

\* C4: no enum, struct or union without a member; empty flags are allowed.
C4_MinimumCardinality ==
    /\ pc \in {"enum", "struct", "union"} => Len(outer.list) >= 1
    /\ \A k \in 1..Len(items) :
          IsTypenameItem(items[k]) => MemberCount(items[k].item.decl.def) >= 1
    /\ pc = "ok" =>
          \A k \in 1..Len(tree.items) :
              IsTypenameItem(tree.items[k]) => MemberCount(tree.items[k].item.decl.def) >= 1
    /\ \A i \in 1..Len(toks) :
          (IsEmptyBody(i, "enum", TRUE) \/ IsEmptyBody(i, "struct", FALSE)
               \/ IsEmptyBody(i, "union", FALSE)) =>
              /\ cur <= i
              /\ NextTok(cur) = i => pc \in {"document", "err"}
    /\ \A k \in 1..Len(TopForms) :
          IsEmptyBody(TopForms[k], "flags", TRUE) =>
              /\ pc # "flags" => k <= Len(items)
              /\ k <= Len(items) =>
                    /\ IsTypenameItem(items[k])
                    /\ items[k].item.decl.def.tag = "Flags"
                    /\ items[k].item.decl.def.flags = <<>>
    /\ \A i \in 1..Len(toks) :
          (IsEmptyBody(i, "flags", TRUE) /\ NextTok(cur) = i) => pc = "document"

\* (typename $t (enum u8)) has failed where a member name is expected.
C4_Witness ==
    /\ toks = TypenameForm("t", ListForm(<<Kw("enum"), Kw("u8")>>, <<>>))
    /\ pc = "err"
    /\ error = [msg |-> <<"expected an identifier">>, at |-> 7]

(***************************************************************************)
(* C5.  As the specification has it: (struct (field "a" u8)), the name of  *)
(* the field a quoted string, parses to a struct of one field a of type U8. *)
(***************************************************************************)
QuotedField ==
    TypenameForm("t", ListForm(<<Kw("struct")>>, FieldForm("field", <<Str("a")>>, <<Kw("u8")>>)))
IdentField ==
    TypenameForm("t", ListForm(<<Kw("struct")>>, FieldForm("field", <<Id("a")>>, <<Kw("u8")>>)))
OneFieldStruct ==
    << Documented([comments |-> <<>>],
                  Decl(Typename("t", Struct(<<Documented([comments |-> <<>>],
                                                         FieldSyntax("a", Builtin("U8")))>>)))) >>

\* C5 as claimed: the quoted field name parses.
C5_AsClaimed ==
    (toks = QuotedField /\ pc \in {"ok", "err"}) =>
        (pc = "ok" /\ tree = TopLevelDocument(OneFieldStruct))

(***************************************************************************)
(* C5, corrected.  The name of a field is an identifier: (struct (field    *)
(* $a u8)) parses to a struct of one field a of type U8, and (struct       *)
(* (field "a" u8)) fails at the string, where an identifier is expected.   *)
(***************************************************************************)
C5_FieldNameIsIdentifier ==
    /\ (toks = IdentField /\ pc \in {"ok", "err"}) =>
           (pc = "ok" /\ tree = TopLevelDocument(OneFieldStruct))
    /\ (toks = IdentField /\ pc = "struct") =>
           outer.list = OneFieldStruct[1].item.decl.def.fields
    /\ (toks = QuotedField /\ pc # "document") =>
           /\ pc = "err"
           /\ tree = None
           /\ error = [msg |-> <<"expected an identifier">>, at |-> 8]

C5_Witness == toks = IdentField /\ pc = "ok" /\ tree = TopLevelDocument(OneFieldStruct)

(***************************************************************************)
(* C3.  The body of a typename is an alias, handed to the parser of        *)
(* datatype references, exactly when it does not open with a parenthesis   *)
(* or its second token is array or @witx; every other body is one form in  *)
(* parentheses whose first token, enum, flags, struct, union or handle,    *)
(* selects the variant, and any other first token is an error.             *)
(***************************************************************************)
Variants == {"enum", "flags", "struct", "union", "handle"}
VariantOf(kw) ==
    CASE kw = "enum" -> "Enum" [] kw = "flags" -> "Flags" [] kw = "struct" -> "Struct"
      [] kw = "union" -> "Union" [] kw = "handle" -> "Handle"

\* The body at p reads as an alias.
AliasAt(p) ==
    LET first == NextTok(p)
        second == NextTok(first + 1)
    IN  \/ ~IsTok(first, LP)
        \/ IsTok(second, Kw("array"))
        \/ IsTok(second, Res("@witx"))

\* The body at p is a form in parentheses that opens with the keyword kw.
OpensWith(p, kw) == IsTok(NextTok(p), LP) /\ IsTok(Word1(NextTok(p)), Kw(kw))

\* C3: alias exactly under the three conditions, else the variant that the
\* first keyword of the form names, else an error.
C3_TypedefDispatch ==
    \* the typenames that are complete
    /\ \A k \in 1..Len(items) :
          IsTypenameItem(items[k]) =>
              LET p == BodyOf(TopForms[k])
                  def == items[k].item.decl.def
              IN  /\ def.tag = "Ident" <=> AliasAt(p)
                  /\ def.tag = "Ident" =>
                         LET r == DatatypeIdentSyntaxParse(p) IN r.ok /\ r.val = def.dt
                  /\ \A kw \in Variants : def.tag = VariantOf(kw) <=> (~AliasAt(p) /\ OpensWith(p, kw))
    \* the typename whose list is being read
    /\ pc \in Variants =>
          /\ IsTypenameForm(outer.before)
          /\ ~AliasAt(BodyOf(outer.before))
          /\ OpensWith(BodyOf(outer.before), pc)
    \* the typename that has failed
    /\ (pc = "err" /\ IsTypenameForm(cur)) =>
          LET p == BodyOf(cur)
              r == DatatypeIdentSyntaxParse(p)
          IN  IF AliasAt(p)
              THEN IF r.ok THEN error = [msg |-> <<"expected )">>, at |-> NextTok(r.pos)]
                   ELSE error = [msg |-> r.err, at |-> r.pos]
              ELSE (\A kw \in Variants : ~OpensWith(p, kw)) =>
                       error = [msg |-> <<"unexpected token, expected one of",
                                          "enum", "flags", "struct", "union", "handle">>,
                                at |-> Word1(NextTok(p))]
    \* no typename is passed over
    /\ \A i \in 1..Len(toks) :
          (IsTypenameForm(i) /\ ~AliasAt(BodyOf(i)) /\ \A kw \in Variants : ~OpensWith(BodyOf(i), kw))
              => cur <= i

\* (typename $t (@witx pointer u8)) is an alias for a pointer to u8.
C3_Witness ==
    /\ toks = TypenameForm("t", <<LP, Res("@witx"), Kw("pointer"), Kw("u8"), RP>>)
    /\ pc = "ok"
    /\ tree.items[1].item.decl.def = TypedefSyntaxIdent(Pointer(Builtin("U8")))

(***************************************************************************)
(* C9.  The first failure of any rule ends the parse: the result is that   *)
(* failure, as the rule made it, and no tree, nothing more is read, and    *)
(* the items that were complete before it are lost with the rest.          *)
(***************************************************************************)
\* What message m says of the token at i is true of it.
Justified(m, i) ==
    CASE m = <<"expected (">> -> ~IsTok(i, LP)
      [] m = <<"expected )">> -> ~IsTok(i, RP)
      [] m = <<"expected an identifier">> -> ~(i <= Len(toks) /\ toks[i].k = "Id")
      [] m = <<"expected a string">> -> ~(i <= Len(toks) /\ toks[i].k = "String")
      [] m = <<"expected @witx">> -> ~IsTok(i, Res("@witx"))
      [] m = <<"expected @interface">> -> ~IsTok(i, Res("@interface"))
      [] m = <<"unexpected token, expected a builtin type">> ->
             \A j \in 1..Len(BuiltinTable) : ~IsTok(i, Kw(BuiltinTable[j][1]))
      [] Len(m) = 2 /\ m[1] = "expected keyword" -> ~IsTok(i, Kw(m[2]))
      [] Len(m) > 2 /\ m[1] = "unexpected token, expected one of" ->
             \A j \in 2..Len(m) : ~IsTok(i, Kw(m[j])) /\ ~IsTok(i, Res(m[j]))
      [] OTHER -> FALSE

C9_State ==
    /\ pc = "err" =>
          /\ tree = None
          /\ error # None
          /\ error.at = NextTok(error.at)
          /\ error.at >= cur
          /\ Justified(error.msg, error.at)
    /\ pc # "err" => error = None
    /\ pc = "ok" => tree = TopLevelDocument(items)
    /\ pc \notin {"ok", "err"} => tree = None

\* No step is taken after a failure, and the step that fails reads nothing
\* past the token its error points at, which is one the step itself met.
C9_Step ==
    /\ pc # "err"
    /\ pc' = "err" => (cur' <= error'.at /\ error'.at >= cur /\ items' = items)

\* C9: a failure is final, it is the failure of the rule that met it, and
\* it returns no tree.
C9_AbortOnFirstError == [](C9_State) /\ [][C9_Step]_vars

\* A module has failed after a typename before it was complete.
C9_Witness ==
    /\ pc = "err"
    /\ Len(items) >= 1
    /\ tree = None
    /\ error.at > cur
    /\ outer # None

(***************************************************************************)
(* C8.  As the specification has it: a successful parse has read all of    *)
(* the input.                                                              *)
(***************************************************************************)
C8_AllInputConsumed == pc = "ok" => NextTok(cur) > Len(toks)

(***************************************************************************)
(* C8, corrected.  The parse of a finite token stream ends, with a tree or *)
(* an error: an iteration of any of the loops reads at least one token or  *)
(* fails; a successful parse holds the items in the order of the source    *)
(* and has read everything before the end of the input or before the first *)
(* ) that closes nothing, which ends the top-level loop as the end of the  *)
(* input does.                                                             *)
(***************************************************************************)
HeadOf(it) ==
    IF it.item.tag = "Use" THEN <<"use", it.item.path>>
    ELSE IF it.item.decl.tag = "Typename" THEN <<"typename", it.item.decl.ident>>
    ELSE <<"module", it.item.decl.name>>

InSourceOrder(its) ==
    /\ Len(its) = Len(TopForms)
    /\ \A k \in 1..Len(its) :
          /\ HeadOf(its[k]) = <<toks[Word1(TopForms[k])].s, toks[Word2(TopForms[k])].s>>
          /\ IsDocumentationOf(its[k].comments, TopForms[k])

C8_Iteration ==
    (pc \notin {"ok", "err"} /\ ~IsEmpty(cur)) => (cur' > cur \/ pc' = "err")

C8_Success ==
    pc = "ok" =>
        /\ InSourceOrder(tree.items)
        /\ \/ NextTok(cur) > Len(toks)
           \/ IsTok(NextTok(cur), RP) /\ Depth(NextTok(cur)) = 0

\* C8, corrected: the parse ends, every iteration reads a token or fails,
\* and success holds the items in source order up to the end or a stray ).
C8_Terminates ==
    /\ <>(pc \in {"ok", "err"})
    /\ [][C8_Iteration]_vars
    /\ [](C8_Success)

\* (use "x") ) has parsed to one item, the ) left unread.
C8_Witness ==
    /\ toks = UseForm("x") \o <<RP>>
    /\ pc = "ok"
    /\ Len(tree.items) = 1
    /\ cur = 5

(***************************************************************************)
(* CommentSyntax on its own: the comments at the cursor are parsed, then   *)
(* docs() is called on the value.                                          *)
(***************************************************************************)
MaxRun == 2
MaxComments == 2
MaxIndent == 2

CommentTexts == {<<>>, <<";">>, <<";", " ", "a">>, <<" ", "a", " ">>}
CommentToks ==
    {LineComment(t) : t \in CommentTexts} \cup {BlockComment(t) : t \in CommentTexts}
\* What follows the run of comments: nothing, or a token and what is behind it.
AfterRun ==
    {<<>>, <<LP>>, <<RP>>} \cup {<<t, c>> : t \in {LP, Id("a")}, c \in CommentToks}
CommentStreams == {r \o a : r \in SeqsUpTo(CommentToks, MaxRun), a \in AfterRun}

\* The texts docs() is tried on: a doc marker or none, an indentation, a
\* body or none, trailing whitespace or none.
DocTexts ==
    {m \o lead \o body \o trail :
        m \in {<<>>, <<";">>}, lead \in SeqsUpTo({" ", NBSP}, MaxIndent),
        body \in {<<>>, <<"a">>}, trail \in {<<>>, <<" ">>}}
CommentSyntaxInputs == {[comments |-> cs] : cs \in SeqsUpTo(DocTexts, MaxComments)}

Unused ==
    /\ items = <<>> /\ outer = None /\ inner = None /\ tree = None /\ error = None

InitComments ==
    /\ toks \in CommentStreams
    /\ cur = 1
    /\ pc = "comments"
    /\ parsed = None
    /\ docs = None
    /\ Unused

InitDocs ==
    /\ toks = <<>>
    /\ cur = 1
    /\ pc = "docs"
    /\ parsed \in CommentSyntaxInputs
    /\ docs = None
    /\ Unused

\* parser.parse::<CommentSyntax>()
ParseComments ==
    /\ pc = "comments"
    /\ LET r == CommentSyntaxParse(cur)
       IN  parsed' = r.val /\ cur' = r.pos
    /\ pc' = "docs"
    /\ UNCHANGED <<toks, items, outer, inner, tree, error, docs>>

\* comments.docs()
Docs ==
    /\ pc = "docs"
    /\ docs' = CommentSyntaxDocs(parsed)
    /\ pc' = "done"
    /\ UNCHANGED <<toks, cur, items, outer, inner, tree, error, parsed>>

NextComments == ParseComments \/ Docs
SpecComments == InitComments /\ [][NextComments]_vars
SpecDocs == InitDocs /\ [][Docs]_vars

(***************************************************************************)
(* C6.  CommentSyntax::docs returns one line per doc comment, each with    *)
(* exactly m characters removed from its left, m being the least number of *)
(* leading whitespace characters of a non-empty doc line (0 without one),  *)
(* and right-trimmed; an empty doc line gives only the newline; a comment  *)
(* that is no doc comment gives nothing.                                   *)
(***************************************************************************)
LeadingWhitespace(s) == Len(s) - Len(TrimStart(s))

ClaimedDocs(self) ==
    LET isDoc(d) == StartsWith(TrimEnd(d), ";")
        kept == SelectSeq(self.comments, isDoc)
        line(i) == Tail(TrimEnd(kept[i]))
        nonEmpty == {i \in 1..Len(kept) : line(i) # <<>>}
        m == IF nonEmpty = {} THEN 0 ELSE Min({LeadingWhitespace(line(i)) : i \in nonEmpty})
        out(i) ==
            (IF line(i) # <<>> THEN TrimEnd(SubSeq(line(i), m + 1, Len(line(i)))) ELSE <<>>)
                \o <<"\n">>
    IN  Flatten([i \in 1..Len(kept) |-> out(i)])

\* C6 as claimed: docs() returns, and returns the text the claim describes.
C6_DocsAsClaimed == pc = "done" => docs = Returned(ClaimedDocs(parsed))

\* The claim holds of every input whose whitespace is one byte wide.
OneByteWhitespace(self) ==
    \A i \in 1..Len(self.comments) : \A j \in 1..Len(self.comments[i]) :
        self.comments[i][j] # NBSP
C6_DocsOneByteWhitespace ==
    (pc = "done" /\ OneByteWhitespace(parsed)) => docs = Returned(ClaimedDocs(parsed))

(***************************************************************************)
(* C7.  CommentSyntax::parse consumes exactly the run of comment tokens at *)
(* the cursor, line and block, doc or not, and records their texts without *)
(* the delimiters in source order; the cursor is left at the first token   *)
(* that is no comment, and where it was when no comment leads.             *)
(***************************************************************************)
CommentRunAt(p) ==
    LET r == CommentSyntaxParse(p)
    IN  /\ r.ok
        /\ r.pos \in p..(Len(toks) + 1)
        /\ \A i \in p..(r.pos - 1) : IsComment(toks[i])
        /\ r.pos <= Len(toks) => ~IsComment(toks[r.pos])
        /\ Len(r.val.comments) = r.pos - p
        /\ \A i \in 1..(r.pos - p) : IsTextOf(r.val.comments[i], toks[p + i - 1])

\* C7: exactly the run of comments at the cursor is consumed and recorded.
C7_CommentRun ==
    /\ \A p \in 1..(Len(toks) + 1) : CommentRunAt(p)
    /\ pc \in {"docs", "done"} =>
          /\ parsed = CommentSyntaxParse(1).val
          /\ cur = CommentSyntaxParse(1).pos
          /\ (Len(toks) = 0 \/ ~IsComment(toks[1])) => (cur = 1 /\ parsed.comments = <<>>)

\* A run of a block and a line comment, one of them no doc comment, was
\* consumed and the token behind it was not.
C7_Witness ==
    /\ pc = "docs"
    /\ cur = 3
    /\ toks[1].k = "BlockComment" /\ toks[2].k = "LineComment"
    /\ parsed.comments = << <<" ", "a", " ">>, <<";", " ", "a">> >>
    /\ Len(toks) = 4 /\ toks[3] = LP /\ IsComment(toks[4])

(***************************************************************************)
(* DatatypeIdentSyntax on its own: one type reference is parsed at the     *)
(* cursor.                                                                 *)
(***************************************************************************)
MaxDepth == 2
MaxLen == 3

Leaves == {Ident("a"), Builtin("U32")}

RECURSIVE Trees(_)
Trees(n) ==
    IF n = 0 THEN Leaves
    ELSE LET below == Trees(n - 1)
         IN  below \cup {Array(t) : t \in below} \cup {Pointer(t) : t \in below}
                   \cup {ConstPointer(t) : t \in below}

\* The source text of a type reference, the const pointer keyword written cp.
RECURSIVE RenderWith(_, _)
RenderWith(t, cp) ==
    CASE t.tag = "Ident" -> <<Id(t.id)>>
      [] t.tag = "Builtin" ->
            LET i == CHOOSE i \in 1..Len(BuiltinTable) : BuiltinTable[i][2] = t.ty
            IN  <<Kw(BuiltinTable[i][1])>>
      [] t.tag = "Array" -> <<LP, Kw("array")>> \o RenderWith(t.of, cp) \o <<RP>>
      [] t.tag = "Pointer" ->
            <<LP, Res("@witx"), Kw("pointer")>> \o RenderWith(t.of, cp) \o <<RP>>
      [] t.tag = "ConstPointer" ->
            <<LP, Res("@witx"), Kw(cp)>> \o RenderWith(t.of, cp) \o <<RP>>

Render(t) == RenderWith(t, "const_pointer")
RenderClaimed(t) == RenderWith(t, "const-pointer")

\* s with token t put in before position i.
InsertAt(s, i, t) == SubSeq(s, 1, i - 1) \o <<t>> \o SubSeq(s, i, Len(s))

DatatypeAlphabet ==
    {LP, RP, Res("@witx"), Kw("pointer"), Kw("const_pointer"), Kw("const-pointer"),
     Kw("array"), Kw("u32"), Id("a"), LineComment(<<";">>)}

DatatypeStreams ==
    LET plain == {Render(t) : t \in Trees(MaxDepth)}
    IN  plain \cup {RenderClaimed(t) : t \in Trees(MaxDepth)}
              \cup UNION {{InsertAt(r, i, LineComment(<<";">>)) : i \in 1..(Len(r) + 1)} :
                              r \in plain}
              \cup SeqsUpTo(DatatypeAlphabet, MaxLen)

InitDatatype ==
    /\ toks \in DatatypeStreams
    /\ cur = 1
    /\ pc = "datatype"
    /\ parsed = None
    /\ docs = None
    /\ Unused

\* parser.parse::<DatatypeIdentSyntax>()
ParseDatatype ==
    /\ pc = "datatype"
    /\ LET r == DatatypeIdentSyntaxParse(cur)
       IN  parsed' = r /\ cur' = IF r.ok THEN r.pos ELSE cur
    /\ pc' = "done"
    /\ UNCHANGED <<toks, items, outer, inner, tree, error, docs>>

SpecDatatype == InitDatatype /\ [][ParseDatatype]_vars

(***************************************************************************)
(* C2.  DatatypeIdentSyntax::parse takes the first alternative that        *)
(* applies: an identifier gives Ident; else a second token array gives     *)
(* Array; else a ( must be followed by @witx and const_pointer or pointer  *)
(* and gives ConstPointer or Pointer; else a builtin keyword gives         *)
(* Builtin.  A reference written as N wrappers around a leaf parses to the *)
(* tree of those N wrappers in source order.  (The keyword is spelled      *)
(* const_pointer.)                                                         *)
(***************************************************************************)
IsBuiltinKeyword(i) ==
    i <= Len(toks) /\ \E j \in 1..Len(BuiltinTable) : toks[i] = Kw(BuiltinTable[j][1])

PriorityAt(p) ==
    LET r == DatatypeIdentSyntaxParse(p)
        first == NextTok(p)
        second == NextTok(first + 1)
        third == NextTok(second + 1)
    IN  IF first <= Len(toks) /\ toks[first].k = "Id"
        THEN r.ok /\ r.val = Ident(toks[first].s) /\ r.pos = first + 1
        ELSE IF first <= Len(toks) /\ IsTok(second, Kw("array"))
        THEN r.ok => (r.val.tag = "Array" /\ toks[first] = LP)
        ELSE IF IsTok(first, LP)
        THEN /\ ~IsTok(second, Res("@witx")) => ~r.ok
             /\ r.ok => \/ r.val.tag = "ConstPointer" /\ IsTok(third, Kw("const_pointer"))
                        \/ r.val.tag = "Pointer" /\ IsTok(third, Kw("pointer"))
        ELSE /\ r.ok <=> IsBuiltinKeyword(first)
             /\ r.ok => (r.val.tag = "Builtin" /\ r.pos = first + 1)

RoundTrip(t) ==
    toks = Render(t) => (parsed.ok /\ parsed.val = t /\ cur = Len(toks) + 1)

\* C2, corrected: the alternatives are tried in the fixed order at every
\* cursor, and N wrappers around a leaf parse to the tree of depth N.
C2_Datatype ==
    /\ \A p \in 1..(Len(toks) + 1) : PriorityAt(p)
    /\ pc = "done" => \A t \in Trees(MaxDepth) : RoundTrip(t)

\* C2 as claimed, with the keyword spelled const-pointer.
C2_AsClaimed ==
    pc = "done" =>
        \A t \in Trees(MaxDepth) :
            toks = RenderClaimed(t) => (parsed.ok /\ parsed.val = t)

\* (@witx pointer (@witx const_pointer u32)) was parsed.
C2_Witness ==
    /\ pc = "done"
    /\ toks = <<LP, Res("@witx"), Kw("pointer"),
                LP, Res("@witx"), Kw("const_pointer"), Kw("u32"), RP, RP>>
    /\ parsed.ok
    /\ parsed.val = Pointer(ConstPointer(Builtin("U32")))

====
